---- MODULE Spec2Model ----
(***************************************************************************)
(* A model of jetstream/experimenter.py: the two intermediate schemas      *)
(* (ExperimentV1, ExperimentV6), their conversion to the common Experiment *)
(* record, the retrying fetch and collection builder                       *)
(* (ExperimentCollection.from_experimenter / _retry_get) and the five      *)
(* filter methods of ExperimentCollection.                                 *)
(*                                                                         *)
(* Three specifications share the module:                                  *)
(*   Spec       one call of ExperimentCollection.from_experimenter         *)
(*   SpecV1     ExperimentV1.from_dict followed by to_experiment           *)
(*   SpecQuery  chains of the filter methods on a collection               *)
(***************************************************************************)
EXTENDS Integers, Sequences, FiniteSets, TLC

(***************************************************************************)
(* Bounds of the model.                                                    *)
(***************************************************************************)
\* longest JSON array an endpoint serves
MaxBlob == 2
\* longest `variants` array of a legacy record (SpecV1)
MaxVariants == 2
\* longest collection the filter chains start from (SpecQuery)
MaxColl == 2

(***************************************************************************)
(* Python values.  Optional[T] is a sequence of length <= 1.               *)
(***************************************************************************)
None == <<>>
Some(x) == <<x>>

\* Truth value of an Optional[datetime] in `x and ...`: None is false, a
\* datetime object (which defines neither __bool__ nor __len__) is true.
Truthy(o) == o # None

SeqsUpTo(S, n) == UNION {[1..m -> S] : m \in 0..n}

(***************************************************************************)
(* JSON values as the `json` module decodes them.  A JSON object is a      *)
(* record over the field names the schemas read; a key the object does not *)
(* hold is Missing.                                                        *)
(***************************************************************************)
Missing == [t |-> "missing"]
JNull == [t |-> "null"]
JNum(n) == [t |-> "num", v |-> n]
JStr(s) == [t |-> "str", v |-> s]
JBool(b) == [t |-> "bool", v |-> b]
JList(l) == [t |-> "list", v |-> l]

\* `key in d`; d[key] raises KeyError when this is false
Has(d, key) == d[key] # Missing

(***************************************************************************)
(* Variant and Branch (attrs classes).                                     *)
(***************************************************************************)
Variant(is_control, slug, ratio) ==
  [is_control |-> is_control, slug |-> slug, ratio |-> ratio]

Branch(slug, ratio) == [slug |-> slug, ratio |-> ratio]

_coerce_none_to_zero(x) == IF x = None THEN 0 ELSE x[1]

(***************************************************************************)
(* ExperimentV1.  A datetime is the instant it denotes, counted in         *)
(* milliseconds since the Unix epoch, UTC.                                 *)
(***************************************************************************)
\* fromtimestamp(num / 1e3, pytz.utc): the instant num / 1e3 seconds, that
\* is num milliseconds, after the epoch; None stays None
_unix_millis_to_datetime(num) == IF num = None THEN None ELSE Some(num[1])

\* Optional[X] of a JSON value that is null or carries a v
JOpt(j) == IF j.t \in {"null", "missing"} THEN None ELSE Some(j.v)

\* cattr structures a Variant: every attribute is required; int("x") of a
\* non-numeric string raises.
CanStructureVariant(j) ==
  /\ j.is_control.t = "bool"
  /\ j.slug.t = "str"
  /\ j.ratio.t = "num"

StructureVariant(j) == Variant(j.is_control.v, j.slug.v, j.ratio.v)

\* Whether converter.structure(d, ExperimentV1) returns.  The attributes
\* without a default are required keys; start_date, end_date and
\* proposed_enrollment are Optional and accept null; normandy_slug and
\* is_high_population default to None.
CanStructureV1(d) ==
  /\ d.slug.t = "str"
  /\ d.type.t = "str"
  /\ d.status.t = "str"
  /\ d.start_date.t \in {"num", "null"}
  /\ d.end_date.t \in {"num", "null"}
  /\ d.proposed_enrollment.t \in {"num", "null"}
  /\ d.variants.t = "list"
  /\ \A n \in 1..Len(d.variants.v) : CanStructureVariant(d.variants.v[n])
  /\ d.normandy_slug.t \in {"str", "null", "missing"}
  /\ d.is_high_population.t \in {"bool", "null", "missing"}

ExperimentV1_from_dict(d) ==
  [slug |-> d.slug.v,
   type |-> d.type.v,
   status |-> d.status.v,
   start_date |-> _unix_millis_to_datetime(JOpt(d.start_date)),
   end_date |-> _unix_millis_to_datetime(JOpt(d.end_date)),
   proposed_enrollment |-> _coerce_none_to_zero(JOpt(d.proposed_enrollment)),
   variants |-> [n \in 1..Len(d.variants.v) |-> StructureVariant(d.variants.v[n])],
   normandy_slug |-> JOpt(d.normandy_slug),
   is_high_population |-> JOpt(d.is_high_population)]

\* control_slugs of to_experiment
ControlSlugs(variants) ==
  LET controls == SelectSeq(variants, LAMBDA variant : variant.is_control)
  IN  [n \in 1..Len(controls) |-> controls[n].slug]

ControlSlugAny(variants) ==
  LET control_slugs == ControlSlugs(variants)
  IN  IF Len(control_slugs) >= 1 THEN Some(control_slugs[1]) ELSE None

ControlSlug(variants) ==
  LET control_slugs == ControlSlugs(variants)
  IN  IF Len(control_slugs) = 1 THEN Some(control_slugs[1]) ELSE None

ExperimentV1_to_experiment(self) ==
  [normandy_slug |-> self.normandy_slug,
   experimenter_slug |-> Some(self.slug),
   type |-> self.type,
   status |-> Some(self.status),
   start_date |-> self.start_date,
   end_date |-> self.end_date,
   proposed_enrollment |-> Some(self.proposed_enrollment),
   branches |-> [n \in 1..Len(self.variants) |->
                   Branch(self.variants[n].slug, self.variants[n].ratio)],
   probe_sets |-> <<>>,
   reference_branch |-> ControlSlug(self.variants),
   is_high_population |->
     IF self.is_high_population = None THEN FALSE ELSE self.is_high_population[1]]

(***************************************************************************)
(* ExperimentV6.  An ISO-8601 string is its wall-clock reading in seconds  *)
(* and its suffix: "Z" or a numeric UTC offset.                            *)
(***************************************************************************)
JIso(sec, suffix) == [t |-> "iso", sec |-> sec, suffix |-> suffix]

\* num.replace("Z", "+00:00")
ReplaceZ(iso) == [iso EXCEPT !.suffix = IF @ = "Z" THEN "+00:00" ELSE @]

OffsetSeconds(suffix) == IF suffix = "+01:00" THEN 3600 ELSE 0

\* dt.datetime.fromisoformat: the instant of an offset-bearing string
fromisoformat(iso) == (iso.sec - OffsetSeconds(iso.suffix)) * 1000

\* the structure hook registered for dt.datetime, under Optional
StructureDate(j) ==
  IF j.t = "null" THEN None ELSE Some(fromisoformat(ReplaceZ(j)))

CanStructureBranch(j) == j.slug.t = "str" /\ j.ratio.t = "num"

\* Whether converter.structure(d, ExperimentV6) returns: every attribute
\* is a required key; the Optional ones accept null.
CanStructureV6(d) ==
  /\ d.slug.t = "str"
  /\ d.branches.t = "list"
  /\ \A n \in 1..Len(d.branches.v) : CanStructureBranch(d.branches.v[n])
  /\ d.startDate.t \in {"iso", "null"}
  /\ d.endDate.t \in {"iso", "null"}
  /\ d.proposedEnrollment.t = "num"
  /\ d.referenceBranch.t \in {"str", "null"}
  /\ d.probeSets.t = "list"
  /\ \A n \in 1..Len(d.probeSets.v) : d.probeSets.v[n].t = "str"

ExperimentV6_from_dict(d) ==
  [slug |-> d.slug.v,
   branches |-> [n \in 1..Len(d.branches.v) |->
                   Branch(d.branches.v[n].slug.v, d.branches.v[n].ratio.v)],
   startDate |-> StructureDate(d.startDate),
   endDate |-> StructureDate(d.endDate),
   proposedEnrollment |-> d.proposedEnrollment.v,
   referenceBranch |-> JOpt(d.referenceBranch),
   probeSets |-> [n \in 1..Len(d.probeSets.v) |-> d.probeSets.v[n].v]]

\* pytz.utc.localize(dt.datetime.now()): now() is the naive wall-clock
\* reading in the process's local timezone (utc_clock shifted by the
\* zone's offset); localize labels that reading as UTC without converting.
LocalizedNow(utc_clock, tz_offset) == utc_clock + tz_offset

V6Status(endDate, now) ==
  IF (Truthy(endDate) /\ endDate[1] >= now) \/ endDate = None
  THEN "Live" ELSE "Complete"

ExperimentV6_to_experiment(self, now) ==
  [normandy_slug |-> Some(self.slug),
   experimenter_slug |-> None,
   type |-> "v6",
   status |-> Some(V6Status(self.endDate, now)),
   start_date |-> self.startDate,
   end_date |-> self.endDate,
   proposed_enrollment |-> Some(self.proposedEnrollment),
   branches |-> self.branches,
   probe_sets |-> self.probeSets,
   reference_branch |-> self.referenceBranch,
   is_high_population |-> FALSE]

(***************************************************************************)
(* State.                                                                  *)
(***************************************************************************)
VARIABLES
  \* --- ExperimentCollection.from_experimenter (Spec) ---
  pc,                        \* position in from_experimenter
  tz_offset,                 \* UTC offset of the process's local timezone, in ms
  utc_clock,                 \* the current instant, in ms since the epoch;
                             \* time.sleep(1) advances it, other steps take no time
  i,                         \* _i of the running _retry_get
  k,                         \* 1-based position of the running for loop
  attempts,                  \* per URL, the outcome of each session.get(url).json()
  sleeps,                    \* per URL, the number of time.sleep(1) calls
  parsed,                    \* per URL, the number of loop iterations entered
  legacy_experiments_json,
  legacy_experiments,
  nimbus_experiments_json,
  nimbus_experiments,
  logged,                    \* the `experiment` extras given to logger.exception
  result,                    \* the returned collection's experiments, if any
  error,                     \* the exception that left from_experimenter, if any
  \* --- ExperimentV1.from_dict / to_experiment (SpecV1) ---
  v1_pc,                     \* position: "from_dict", "to_experiment", "done", "raised"
  v1_dict,                   \* the JSON object given to from_dict
  v1_record,                 \* the ExperimentV1 it returned, if any
  v1_experiment,             \* the Experiment to_experiment returned, if any
  \* --- filter methods (SpecQuery) ---
  experiments,               \* self.experiments of the receiver, after the call
  experiments_before,        \* self.experiments of the receiver, before the call
  returned,                  \* experiments of the collection the call returned
  call                       \* the method called and its argument

fetchVars == <<pc, tz_offset, utc_clock, i, k, attempts, sleeps, parsed,
               legacy_experiments_json, legacy_experiments,
               nimbus_experiments_json, nimbus_experiments, logged, result, error>>
v1Vars == <<v1_pc, v1_dict, v1_record, v1_experiment>>
queryVars == <<experiments, experiments_before, returned, call>>
vars == <<fetchVars, v1Vars, queryVars>>

\* the variables of the other specifications, parked
FetchIdle ==
  /\ pc = "idle" /\ tz_offset = 0 /\ utc_clock = 0 /\ i = 0 /\ k = 0
  /\ attempts = <<>> /\ sleeps = <<>> /\ parsed = <<>>
  /\ legacy_experiments_json = <<>> /\ legacy_experiments = <<>>
  /\ nimbus_experiments_json = <<>> /\ nimbus_experiments = <<>>
  /\ logged = <<>> /\ result = None /\ error = None
V1Idle ==
  v1_pc = "idle" /\ v1_dict = <<>> /\ v1_record = None /\ v1_experiment = None
QueryIdle ==
  /\ experiments = <<>> /\ experiments_before = <<>> /\ returned = <<>>
  /\ call = [op |-> "idle", chained |-> FALSE]

(***************************************************************************)
(* What the two endpoints may serve.                                       *)
(***************************************************************************)
MAX_RETRIES == 3
EXPERIMENTER_API_URL_V1 == "https://experimenter.services.mozilla.com/api/v1/experiments/"
EXPERIMENTER_API_URL_V6 == "https://experimenter.services.mozilla.com/api/v6/experiments/"
URLs == {EXPERIMENTER_API_URL_V1, EXPERIMENTER_API_URL_V6}

JVariant(is_control, slug, ratio) ==
  [is_control |-> is_control, slug |-> slug, ratio |-> ratio]

LegacyBase ==
  [slug |-> JStr("a"), type |-> JStr("pref"), status |-> JStr("Complete"),
   start_date |-> JNum(0), end_date |-> JNum(1000),
   proposed_enrollment |-> JNull,
   variants |-> JList(<<JVariant(JBool(TRUE), JStr("control"), JNum(1))>>),
   normandy_slug |-> Missing, is_high_population |-> Missing]

\* two well-formed records, a "rapid" one, one whose ratio is not a number,
\* one without "type" and one without "slug"
LegacyRecords ==
  { LegacyBase,
    [LegacyBase EXCEPT !.slug = JStr("b"), !.status = JStr("Draft"),
                       !.end_date = JNull, !.normandy_slug = JStr("b-normandy"),
                       !.is_high_population = JBool(TRUE)],
    [LegacyBase EXCEPT !.slug = JStr("r"), !.type = JStr("rapid")],
    [LegacyBase EXCEPT !.slug = JStr("bad"),
       !.variants = JList(<<JVariant(JBool(TRUE), JStr("control"), JStr("x"))>>)],
    [LegacyBase EXCEPT !.slug = JStr("untyped"), !.type = Missing],
    [LegacyBase EXCEPT !.slug = Missing] }

NimbusBase ==
  [slug |-> JStr("n"),
   branches |-> JList(<<[slug |-> JStr("control"), ratio |-> JNum(1)]>>),
   startDate |-> JIso(0, "Z"), endDate |-> JNull,
   proposedEnrollment |-> JNum(7), referenceBranch |-> JStr("control"),
   probeSets |-> JList(<<JStr("p")>>)]

\* two well-formed records (one open-ended, one ending 2 s after the epoch),
\* one without "proposedEnrollment" and one without "slug"
NimbusRecords ==
  { NimbusBase,
    [NimbusBase EXCEPT !.slug = JStr("m"), !.endDate = JIso(2, "Z")],
    [NimbusBase EXCEPT !.slug = JStr("bad6"), !.proposedEnrollment = Missing],
    [NimbusBase EXCEPT !.slug = Missing] }

Blobs(url) ==
  IF url = EXPERIMENTER_API_URL_V1 THEN SeqsUpTo(LegacyRecords, MaxBlob)
  ELSE SeqsUpTo(NimbusRecords, MaxBlob)

\* local timezones: one hour west of UTC, UTC, one hour east
TzOffsets == {-3600000, 0, 3600000}

(***************************************************************************)
(* ExperimentCollection.from_experimenter and _retry_get.                  *)
(***************************************************************************)
Init ==
  /\ pc = "get_v1"
  /\ tz_offset \in TzOffsets
  /\ utc_clock = 0
  /\ i = 0
  /\ k = 0
  /\ attempts = [u \in URLs |-> <<>>]
  /\ sleeps = [u \in URLs |-> 0]
  /\ parsed = [u \in URLs |-> 0]
  /\ legacy_experiments_json = <<>>
  /\ legacy_experiments = <<>>
  /\ nimbus_experiments_json = <<>>
  /\ nimbus_experiments = <<>>
  /\ logged = <<>>
  /\ result = None
  /\ error = None
  /\ V1Idle
  /\ QueryIdle

\* the URL of the running _retry_get
Url == IF pc = "get_v1" THEN EXPERIMENTER_API_URL_V1 ELSE EXPERIMENTER_API_URL_V6

\* an exception leaves from_experimenter
Raise(exception) == pc' = "raised" /\ error' = Some(exception)

TooManyRetries(url) == "Too many retries for " \o url

\* range(MAX_RETRIES) has no value after n: the for loop ends, its else runs
RangeExhaustedLate(n) == n + 1 > MAX_RETRIES
RangeExhausted(n) == n + 1 >= MAX_RETRIES

\* One iteration of the for loop of _retry_get whose body succeeds:
\* blob = session.get(url).json(); break; return blob.  The caller binds the
\* blob and enters its for loop.
RetryGetOk ==
  /\ pc \in {"get_v1", "get_v6"}
  /\ \E blob \in Blobs(Url) :
       IF pc = "get_v1"
       THEN /\ legacy_experiments_json' = blob
            /\ pc' = "parse_v1"
            /\ UNCHANGED nimbus_experiments_json
       ELSE /\ nimbus_experiments_json' = blob
            /\ pc' = "parse_v6"
            /\ UNCHANGED legacy_experiments_json
  /\ attempts' = [attempts EXCEPT ![Url] = Append(@, "ok")]
  /\ k' = 1
  /\ UNCHANGED <<tz_offset, utc_clock, i, sleeps, parsed, legacy_experiments,
                 nimbus_experiments, logged, result, error>>
  /\ UNCHANGED <<v1Vars, queryVars>>

\* A _retry_get that gives up quietly: after the last failed attempt it
\* returns an empty array instead of raising.
RetryGetFailQuiet ==
  /\ pc \in {"get_v1", "get_v6"}
  /\ attempts' = [attempts EXCEPT ![Url] = Append(@, "err")]
  /\ sleeps' = [sleeps EXCEPT ![Url] = @ + 1]
  /\ utc_clock' = utc_clock + 1000
  /\ IF RangeExhausted(i)
     THEN /\ pc' = IF pc = "get_v1" THEN "parse_v1" ELSE "parse_v6"
          /\ k' = 1
          /\ UNCHANGED <<i, error>>
     ELSE i' = i + 1 /\ UNCHANGED <<pc, k, error>>
  /\ UNCHANGED <<tz_offset, parsed, legacy_experiments_json, legacy_experiments,
                 nimbus_experiments_json, nimbus_experiments, logged, result>>
  /\ UNCHANGED <<v1Vars, queryVars>>

\* One iteration of the for loop of _retry_get whose body raises (network
\* error, non-2xx status, undecodable body): the handler logs and sleeps one
\* second; when that was the last value of the range, the loop's else clause
\* raises.
RetryGetFail ==
  /\ pc \in {"get_v1", "get_v6"}
  /\ attempts' = [attempts EXCEPT ![Url] = Append(@, "err")]
  /\ sleeps' = [sleeps EXCEPT ![Url] = @ + 1]
  /\ utc_clock' = utc_clock + 1000
  /\ IF RangeExhausted(i)
     THEN Raise(TooManyRetries(Url)) /\ UNCHANGED i
     ELSE i' = i + 1 /\ UNCHANGED <<pc, error>>
  /\ UNCHANGED <<tz_offset, k, parsed, legacy_experiments_json, legacy_experiments,
                 nimbus_experiments_json, nimbus_experiments, logged, result>>
  /\ UNCHANGED <<v1Vars, queryVars>>

\* One iteration of `for experiment in legacy_experiments_json`.
LegacyIterate ==
  /\ pc = "parse_v1"
  /\ k <= Len(legacy_experiments_json)
  /\ parsed' = [parsed EXCEPT ![EXPERIMENTER_API_URL_V1] = @ + 1]
  /\ LET experiment == legacy_experiments_json[k] IN
       IF ~Has(experiment, "type")
       THEN \* experiment["type"] raises KeyError outside the try
            /\ Raise("KeyError: 'type'")
            /\ UNCHANGED <<k, legacy_experiments, logged>>
       ELSE IF experiment.type = JStr("rapid")
       THEN /\ k' = k + 1
            /\ UNCHANGED <<pc, error, legacy_experiments, logged>>
       ELSE IF CanStructureV1(experiment)
       THEN /\ legacy_experiments' =
                 Append(legacy_experiments,
                        ExperimentV1_to_experiment(ExperimentV1_from_dict(experiment)))
            /\ k' = k + 1
            /\ UNCHANGED <<pc, error, logged>>
       ELSE IF Has(experiment, "slug")
       THEN \* the handler logs the exception with the record's slug
            /\ logged' = Append(logged, experiment.slug.v)
            /\ k' = k + 1
            /\ UNCHANGED <<pc, error, legacy_experiments>>
       ELSE \* experiment["slug"] raises KeyError inside the handler
            /\ Raise("KeyError: 'slug'")
            /\ UNCHANGED <<k, legacy_experiments, logged>>
  /\ UNCHANGED <<tz_offset, utc_clock, i, attempts, sleeps, legacy_experiments_json,
                 nimbus_experiments_json, nimbus_experiments, result>>
  /\ UNCHANGED <<v1Vars, queryVars>>

\* The legacy loop ends; from_experimenter calls _retry_get for the V6 URL.
LegacyLoopEnd ==
  /\ pc = "parse_v1"
  /\ k > Len(legacy_experiments_json)
  /\ pc' = "get_v6"
  /\ i' = 0
  /\ UNCHANGED <<tz_offset, utc_clock, k, attempts, sleeps, parsed,
                 legacy_experiments_json, legacy_experiments,
                 nimbus_experiments_json, nimbus_experiments, logged, result, error>>
  /\ UNCHANGED <<v1Vars, queryVars>>

\* One iteration of `for experiment in nimbus_experiments_json`.
NimbusIterate ==
  /\ pc = "parse_v6"
  /\ k <= Len(nimbus_experiments_json)
  /\ parsed' = [parsed EXCEPT ![EXPERIMENTER_API_URL_V6] = @ + 1]
  /\ LET experiment == nimbus_experiments_json[k] IN
       IF CanStructureV6(experiment)
       THEN /\ nimbus_experiments' =
                 Append(nimbus_experiments,
                        ExperimentV6_to_experiment(ExperimentV6_from_dict(experiment),
                                                   LocalizedNow(utc_clock, tz_offset)))
            /\ k' = k + 1
            /\ UNCHANGED <<pc, error, logged>>
       ELSE IF Has(experiment, "slug")
       THEN /\ logged' = Append(logged, experiment.slug.v)
            /\ k' = k + 1
            /\ UNCHANGED <<pc, error, nimbus_experiments>>
       ELSE \* experiment["slug"] raises KeyError inside the handler
            /\ Raise("KeyError: 'slug'")
            /\ UNCHANGED <<k, nimbus_experiments, logged>>
  /\ UNCHANGED <<tz_offset, utc_clock, i, attempts, sleeps, legacy_experiments_json,
                 legacy_experiments, nimbus_experiments_json, result>>
  /\ UNCHANGED <<v1Vars, queryVars>>

\* cls(nimbus_experiments + legacy_experiments)
CollectionLegacyFirst(nimbus, legacy) == legacy \o nimbus
Collection(nimbus, legacy) == nimbus \o legacy

\* The V6 loop ends; from_experimenter returns the collection.
Return ==
  /\ pc = "parse_v6"
  /\ k > Len(nimbus_experiments_json)
  /\ result' = Some(Collection(nimbus_experiments, legacy_experiments))
  /\ pc' = "returned"
  /\ UNCHANGED <<tz_offset, utc_clock, i, k, attempts, sleeps, parsed,
                 legacy_experiments_json, legacy_experiments,
                 nimbus_experiments_json, nimbus_experiments, logged, error>>
  /\ UNCHANGED <<v1Vars, queryVars>>

Next ==
  \/ RetryGetOk
  \/ RetryGetFail
  \/ LegacyIterate
  \/ LegacyLoopEnd
  \/ NimbusIterate
  \/ Return

Spec == Init /\ [][Next]_vars

(***************************************************************************)
(* SpecV1: ExperimentV1.from_dict(d).to_experiment() on one JSON object.   *)
(***************************************************************************)
JVariants ==
  {JVariant(JBool(b), JStr(slug), ratio) :
     b \in BOOLEAN, slug \in {"control", "treatment"}, ratio \in {JNum(1), JStr("x")}}

V1Dicts ==
  {[LegacyBase EXCEPT !.variants = JList(vs), !.proposed_enrollment = pe] :
     vs \in SeqsUpTo(JVariants, MaxVariants), pe \in {JNull, JNum(14)}}

InitV1 ==
  /\ v1_pc = "from_dict"
  /\ v1_dict \in V1Dicts
  /\ v1_record = None
  /\ v1_experiment = None
  /\ FetchIdle
  /\ QueryIdle

V1FromDict ==
  /\ v1_pc = "from_dict"
  /\ CanStructureV1(v1_dict)
  /\ v1_record' = Some(ExperimentV1_from_dict(v1_dict))
  /\ v1_pc' = "to_experiment"
  /\ UNCHANGED <<v1_dict, v1_experiment, fetchVars, queryVars>>

V1FromDictRaises ==
  /\ v1_pc = "from_dict"
  /\ ~CanStructureV1(v1_dict)
  /\ v1_pc' = "raised"
  /\ UNCHANGED <<v1_dict, v1_record, v1_experiment, fetchVars, queryVars>>

V1ToExperiment ==
  /\ v1_pc = "to_experiment"
  /\ v1_experiment' = Some(ExperimentV1_to_experiment(v1_record[1]))
  /\ v1_pc' = "done"
  /\ UNCHANGED <<v1_dict, v1_record, fetchVars, queryVars>>

NextV1 == V1FromDict \/ V1FromDictRaises \/ V1ToExperiment

SpecV1 == InitV1 /\ [][NextV1]_vars

(***************************************************************************)
(* SpecQuery: the filter methods of ExperimentCollection.  Each method is  *)
(* an operator from the receiver's experiments and the argument to the     *)
(* receiver's experiments after the call (self) and the experiments of the *)
(* collection returned (ret).                                              *)
(***************************************************************************)
\* a type_or_types argument: one str, or an iterable of str
TStr(s) == [t |-> "str", v |-> s]
TIter(S) == [t |-> "iter", v |-> S]

\* if isinstance(type_or_types, str): type_or_types = (type_or_types,)
AsTypes(type_or_types) ==
  IF type_or_types.t = "str" THEN {type_or_types.v} ELSE type_or_types.v

of_type(self, type_or_types) ==
  [self |-> self,
   ret |-> SelectSeq(self, LAMBDA ex : ex.type \in AsTypes(type_or_types))]

ever_launched(self) ==
  [self |-> self,
   ret |-> SelectSeq(self, LAMBDA ex :
             ex.status \in {Some("Complete"), Some("Live")} \/ ex.status = None)]

with_slug(self, slug) ==
  [self |-> self,
   ret |-> SelectSeq(self, LAMBDA ex :
             ex.experimenter_slug = Some(slug) \/ ex.normandy_slug = Some(slug))]

\* started_since filtering the receiver's list in place
started_since_in_place(self, since) ==
  LET kept == SelectSeq(ever_launched(self).ret, LAMBDA ex :
                Truthy(ex.start_date) /\ ex.start_date[1] >= since)
  IN  [self |-> kept, ret |-> kept]

\* started_since without the ever_launched() restriction
started_since_any_status(self, since) ==
  [self |-> self,
   ret |-> SelectSeq(self, LAMBDA ex :
             Truthy(ex.start_date) /\ ex.start_date[1] >= since)]

started_since(self, since) ==
  [self |-> self,
   ret |-> SelectSeq(ever_launched(self).ret, LAMBDA ex :
             Truthy(ex.start_date) /\ ex.start_date[1] >= since)]

\* end_on_or_after without `or ex.end_date is None`
end_on_or_after_dated_only(self, after) ==
  [self |-> self,
   ret |-> SelectSeq(ever_launched(self).ret, LAMBDA ex :
             Truthy(ex.end_date) /\ ex.end_date[1] >= after)]

end_on_or_after(self, after) ==
  [self |-> self,
   ret |-> SelectSeq(ever_launched(self).ret, LAMBDA ex :
             (Truthy(ex.end_date) /\ ex.end_date[1] >= after) \/ ex.end_date = None)]

\* the Experiment records the collections of SpecQuery hold
QueryKinds ==
  { [type |-> "v6", experimenter_slug |-> None, normandy_slug |-> Some("a")],
    [type |-> "pref", experimenter_slug |-> Some("b"), normandy_slug |-> None] }
QueryStatuses == {Some("Complete"), Some("Live"), Some("Draft"), None}
\* not started; started and open-ended; started and ended
QueryDates ==
  { [start_date |-> None, end_date |-> None],
    [start_date |-> Some(1000), end_date |-> None],
    [start_date |-> Some(1000), end_date |-> Some(2000)] }
QueryExperiments ==
  {[experimenter_slug |-> kind.experimenter_slug,
    normandy_slug |-> kind.normandy_slug,
    type |-> kind.type,
    status |-> status,
    branches |-> <<>>,
    probe_sets |-> <<>>,
    start_date |-> dates.start_date,
    end_date |-> dates.end_date,
    proposed_enrollment |-> Some(0),
    reference_branch |-> None,
    is_high_population |-> FALSE] :
     kind \in QueryKinds, status \in QueryStatuses, dates \in QueryDates}

TypeArgs == {TStr("v6"), TStr("pref"), TIter({"v6", "pref"}), TIter({})}
SlugArgs == {"a", "b", "c"}
TimeArgs == {1000, 2000, 3000}

InitQuery ==
  /\ experiments \in SeqsUpTo(QueryExperiments, MaxColl)
  /\ experiments_before = experiments
  /\ returned = experiments
  /\ call = [op |-> "cls", chained |-> FALSE]
  /\ FetchIdle
  /\ V1Idle

\* the collections a caller holds: the receiver of the last call, and the
\* collection it returned (calling on the latter continues the chain)
Receivers == {"receiver", "returned"}
Held(which) == IF which = "returned" THEN returned ELSE experiments

\* Each action is one call: experiments_before is the receiver's list when
\* the call starts, experiments the same list when it returns, returned the
\* list of the collection handed back.
OfType ==
  \E which \in Receivers, type_or_types \in TypeArgs :
    LET out == of_type(Held(which), type_or_types) IN
      /\ experiments_before' = Held(which)
      /\ experiments' = out.self
      /\ returned' = out.ret
      /\ call' = [op |-> "of_type", arg |-> type_or_types,
                  chained |-> which = "returned" /\ call.op # "cls"]
      /\ UNCHANGED <<fetchVars, v1Vars>>

EverLaunched ==
  \E which \in Receivers :
    LET out == ever_launched(Held(which)) IN
      /\ experiments_before' = Held(which)
      /\ experiments' = out.self
      /\ returned' = out.ret
      /\ call' = [op |-> "ever_launched", arg |-> None,
                  chained |-> which = "returned" /\ call.op # "cls"]
      /\ UNCHANGED <<fetchVars, v1Vars>>

WithSlug ==
  \E which \in Receivers, slug \in SlugArgs :
    LET out == with_slug(Held(which), slug) IN
      /\ experiments_before' = Held(which)
      /\ experiments' = out.self
      /\ returned' = out.ret
      /\ call' = [op |-> "with_slug", arg |-> slug,
                  chained |-> which = "returned" /\ call.op # "cls"]
      /\ UNCHANGED <<fetchVars, v1Vars>>

StartedSince ==
  \E which \in Receivers, since \in TimeArgs :
    LET out == started_since(Held(which), since) IN
      /\ experiments_before' = Held(which)
      /\ experiments' = out.self
      /\ returned' = out.ret
      /\ call' = [op |-> "started_since", arg |-> since,
                  chained |-> which = "returned" /\ call.op # "cls"]
      /\ UNCHANGED <<fetchVars, v1Vars>>

EndOnOrAfter ==
  \E which \in Receivers, after \in TimeArgs :
    LET out == end_on_or_after(Held(which), after) IN
      /\ experiments_before' = Held(which)
      /\ experiments' = out.self
      /\ returned' = out.ret
      /\ call' = [op |-> "end_on_or_after", arg |-> after,
                  chained |-> which = "returned" /\ call.op # "cls"]
      /\ UNCHANGED <<fetchVars, v1Vars>>

NextQuery == OfType \/ EverLaunched \/ WithSlug \/ StartedSince \/ EndOnOrAfter

SpecQuery == InitQuery /\ [][NextQuery]_vars

(***************************************************************************)
(* Properties.                                                             *)
(***************************************************************************)
V1 == EXPERIMENTER_API_URL_V1
V6 == EXPERIMENTER_API_URL_V6

Last(seq) == seq[Len(seq)]

\* what the legacy loop is to collect from a served array: the records
\* that are not "rapid" and decode, normalized, in the array's order
ExpectedLegacy(json) ==
  LET kept == SelectSeq(json, LAMBDA d : d.type # JStr("rapid") /\ CanStructureV1(d))
  IN  [n \in 1..Len(kept) |-> ExperimentV1_to_experiment(ExperimentV1_from_dict(kept[n]))]

\* what the V6 loop is to collect: the records that decode, normalized
ExpectedNimbus(json, now) ==
  LET kept == SelectSeq(json, LAMBDA d : CanStructureV6(d))
  IN  [n \in 1..Len(kept) |->
         ExperimentV6_to_experiment(ExperimentV6_from_dict(kept[n]), now)]

FetchExhausted == {Some(TooManyRetries(u)) : u \in URLs}

\* C1: a record that fails to decode (a required field missing, `type` and
\* `slug` included, or a field of the wrong type) is skipped and never aborts
\* the call: from_experimenter raises only when a fetch is exhausted, and
\* once both arrays are fetched and walked it returns every record that
\* decodes.
C1_DecodeFailureNeverAborts ==
  /\ pc = "raised" => error \in FetchExhausted
  /\ pc = "returned" =>
       result = Some(ExpectedNimbus(nimbus_experiments_json,
                                    LocalizedNow(utc_clock, tz_offset))
                     \o ExpectedLegacy(legacy_experiments_json))

\* where from_experimenter is while _retry_get(url) runs, and where it is
\* once that call has returned its blob and the blob's loop runs or is over
Running(url) == IF url = V1 THEN "get_v1" ELSE "get_v6"
Walking(url) ==
  IF url = V1 THEN {"parse_v1", "get_v6", "parse_v6", "returned"}
  ELSE {"parse_v6", "returned"}

C3_AllOrNothing ==
  /\ \A u \in URLs :
       Len(SelectSeq(attempts[u], LAMBDA a : a = "err")) = 3 =>
         /\ pc = "raised"
         /\ error = Some(TooManyRetries(u))
         /\ result = None
         /\ parsed[u] = 0
  /\ pc = "raised" => result = None
  /\ result # None =>
       \A u \in URLs : attempts[u] # <<>> /\ Last(attempts[u]) = "ok"

C3_Witness ==
  /\ error = Some(TooManyRetries(V6))
  /\ Len(legacy_experiments) = 2
  /\ parsed[V1] = 2
  /\ result = None

\* C5: every normalized V6 experiment has status "Live" if and only if its
\* endDate is null or not before the current UTC time at parse time, and
\* "Complete" otherwise; never another value, never null.
C5_StatusByUtcNow ==
  \A n \in 1..Len(nimbus_experiments) :
    LET ex == nimbus_experiments[n] IN
      /\ ex.status \in {Some("Live"), Some("Complete")}
      /\ ex.status = Some("Live")
           <=> (ex.end_date = None \/ ex.end_date[1] >= utc_clock)

\* C6: the returned collection holds the normalized V6 experiments first,
\* in array order, then the normalized legacy experiments that are not
\* "rapid", in array order; nothing of type "rapid" is in it; and the V6
\* endpoint is requested only after the legacy array was fetched and walked
\* to its end.
C6_NimbusThenLegacy ==
  /\ pc = "returned" =>
       /\ result = Some(ExpectedNimbus(nimbus_experiments_json,
                                       LocalizedNow(utc_clock, tz_offset))
                        \o ExpectedLegacy(legacy_experiments_json))
       /\ \A n \in 1..Len(result[1]) : result[1][n].type # "rapid"
  /\ attempts[V6] # <<>> =>
       /\ Last(attempts[V1]) = "ok"
       /\ parsed[V1] = Len(legacy_experiments_json)

C6_Witness ==
  /\ pc = "returned"
  /\ Len(legacy_experiments_json) = 2
  /\ legacy_experiments_json[1].type = JStr("rapid")
  /\ Len(nimbus_experiments) = 2
  /\ Len(result[1]) = 3
  /\ result[1][1].normandy_slug # result[1][2].normandy_slug

\* C10: _retry_get pauses at most twice per endpoint.
C10_AtMostTwoPauses == \A u \in URLs : sleeps[u] <= 2

\* the positions of the variants of a decoded JSON object flagged is_control
ControlPositions(d) ==
  {n \in 1..Len(d.variants.v) : d.variants.v[n].is_control.v}

\* C4: for every legacy record that decodes, to_experiment sets
\* reference_branch to the slug of the variant with is_control true when
\* there is exactly one, and to null when there is none or more than one;
\* branches are the variants as Branch{slug, ratio}, same order, same length.
C4_ReferenceBranch ==
  v1_pc = "done" =>
    LET variants == v1_dict.variants.v
        controls == ControlPositions(v1_dict)
        ex == v1_experiment[1]
    IN  /\ Cardinality(controls) = 1 =>
             \A n \in controls : ex.reference_branch = Some(variants[n].slug.v)
        /\ Cardinality(controls) # 1 => ex.reference_branch = None
        /\ Len(ex.branches) = Len(variants)
        /\ \A n \in 1..Len(variants) :
             ex.branches[n] = [slug |-> variants[n].slug.v, ratio |-> variants[n].ratio.v]

C4_Witness ==
  /\ v1_pc = "done"
  /\ Cardinality(ControlPositions(v1_dict)) = 2
  /\ v1_dict.variants.v[1].slug # v1_dict.variants.v[2].slug
  /\ v1_experiment[1].reference_branch = None

RECURSIVE IsSubsequence(_, _)
IsSubsequence(a, b) ==
  IF a = <<>> THEN TRUE
  ELSE IF b = <<>> THEN FALSE
  ELSE IF Head(a) = Head(b) THEN IsSubsequence(Tail(a), Tail(b))
  ELSE IsSubsequence(a, Tail(b))

\* C7: each filter method, on any collection and argument and after any
\* chain of them, leaves the receiver's experiments as they were and returns
\* a subsequence of them (same relative order, nothing added or duplicated).
C7_FiltersArePure ==
  call.op # "cls" =>
    /\ experiments = experiments_before
    /\ IsSubsequence(returned, experiments_before)

C7_Witness ==
  /\ call.op = "started_since"
  /\ call.chained
  /\ Len(experiments_before) = 2
  /\ returned = <<experiments_before[2]>>
  /\ experiments_before[1] # experiments_before[2]

Launched(ex) == ex.status = Some("Complete") \/ ex.status = Some("Live") \/ ex.status = None

\* C8: started_since(since) returns exactly the experiments whose status is
\* "Complete", "Live" or null and whose start_date is non-null and >= since.
C8_StartedSince ==
  call.op = "started_since" =>
    returned = SelectSeq(experiments_before, LAMBDA ex :
                 /\ Launched(ex)
                 /\ ex.start_date # None
                 /\ ex.start_date[1] >= call.arg)

\* a launched experiment without start_date and a "Draft" one started in
\* time are both left out; a launched one started in time is kept
C8_Witness ==
  /\ call.op = "started_since"
  /\ Len(experiments_before) = 2
  /\ experiments_before[1].status = Some("Draft")
  /\ experiments_before[1].start_date = Some(1000)
  /\ experiments_before[2].status = None
  /\ experiments_before[2].start_date = None
  /\ call.arg = 1000
  /\ returned = <<>>

\* C9: end_on_or_after(after) returns exactly the experiments whose status
\* is "Complete", "Live" or null and whose end_date is null or >= after.
C9_EndOnOrAfter ==
  call.op = "end_on_or_after" =>
    returned = SelectSeq(experiments_before, LAMBDA ex :
                 /\ Launched(ex)
                 /\ (ex.end_date = None \/ ex.end_date[1] >= call.arg))

\* an open-ended experiment is kept though `after` is later than every date
C9_Witness ==
  /\ call.op = "end_on_or_after"
  /\ call.arg = 3000
  /\ Len(experiments_before) = 2
  /\ experiments_before[1].end_date = Some(2000)
  /\ experiments_before[1].status = Some("Live")
  /\ experiments_before[2].end_date = None
  /\ returned = <<experiments_before[2]>>

====
